---- MODULE Spec2Model ----
(***************************************************************************)
(* ptwebhook: the terminal wizard of src/main.rs as a state machine.       *)
(*                                                                         *)
(* The state is the App struct (state, templates, selected_template,       *)
(* template_list_state, current_field, field_values, webhook_url), the     *)
(* command-line argument and the templates directory the process is        *)
(* started with, the terminal and the exit code of the process, and the    *)
(* position of the program: in main before the argument is parsed, before  *)
(* App::new, reading keys in run_app's loop, suspended in send_webhook on   *)
(* the request's await, or ended.  One action models one match arm of      *)
(* run_app together with the App method it calls.                          *)
(*                                                                         *)
(* A String is modelled as the sequence of its chars (String::push and     *)
(* String::pop work on chars), an Option as a sequence of length 0 or 1,   *)
(* and a HashMap by the sequence in which it iterates, which is fixed for  *)
(* an unmodified map but is not the order of the TOML document.            *)
(***************************************************************************)
EXTENDS Integers, Sequences, FiniteSets, TLC

VARIABLES
    token,                \* cli.token: the endpoint argument
    directory,            \* the templates directory: None, or whether it can be read and its files
    terminal,             \* the terminal: "cooked", "alternate" screen, or "restored" from it
    exit_code,            \* the exit code of the process, None while it runs
    webhook_url,          \* App.webhook_url: String
    state,                \* App.state: AppState
    templates,            \* App.templates: Vec<(String, TemplateConfig)>
    selected_template,    \* App.selected_template: Option<usize>
    template_list_state,  \* App.template_list_state.selected(): Option<usize>
    current_field,        \* App.current_field: usize
    field_values,         \* App.field_values: HashMap<String, String>
    request,              \* the POST in flight, if any: its url and its json body
    pc,                   \* where the program is: "main", "setup", "loop", "send_await",
                          \* "returned" (run_app has returned), "exited" (process::exit)
    exit                  \* how run_app ended: "", "quit", "error", "panic"

vars == <<token, directory, terminal, exit_code, webhook_url, state, templates,
          selected_template, template_list_state, current_field, field_values, request,
          pc, exit>>

----------------------------------------------------------------------------
(* Bounds of the model *)

\* longest field value the model types (String has no limit)
MaxLen == 2

\* most template files in the templates directory
MaxTemplates == 3

\* largest cursor the model follows when current_field grows past the fields
MaxCursor == 2

----------------------------------------------------------------------------
(* Option and String *)

None == <<>>

Some(x) == <<x>>

IsSome(o) == Len(o) = 1

Unwrap(o) == o[1]

EmptyString == <<>>

\* String::push(c)
Push(s, c) == Append(s, c)

\* a faulty pop that removes the first char; C7 tells it from Pop
PopDropsFirst(s) == IF Len(s) = 0 THEN s ELSE SubSeq(s, 2, Len(s))

\* String::pop(): removes the last char, nothing on an empty string
Pop(s) == IF Len(s) = 0 THEN s ELSE SubSeq(s, 1, Len(s) - 1)

Range(s) == {s[i] : i \in 1..Len(s)}

\* all orders in which a map holding the entries of s can iterate
Perms(s) ==
    {p \in [1..Len(s) -> Range(s)] : \A i, j \in 1..Len(s) : i # j => p[i] # p[j]}

----------------------------------------------------------------------------
(* The template files: TemplateConfig documents, fields in declaration order *)

Field(key, label, required, default) ==
    [key |-> key, label |-> label, required |-> required, default |-> default]

TemplateFiles == {"A", "B", "Z"}

\* the [fields] table of each file, in the order the file declares it
DeclaredFields(id) ==
    CASE id = "A" -> << Field("title", "Title", Some(TRUE), Some(<<"d">>)),
                        Field("body", "Body", None, None) >>
      [] id = "B" -> << Field("note", "Note", Some(TRUE), None) >>
      [] id = "Z" -> << >>

\* [template] and [webhook] of each file
TemplateInfo(id) ==
    CASE id = "A" -> [name |-> "Alpha", description |-> "first"]
      [] id = "B" -> [name |-> "Beta", description |-> "second"]
      [] id = "Z" -> [name |-> "Zero", description |-> "no fields"]

WebhookConfig(id) ==
    CASE id = "A" -> [username |-> Some("bot"), avatar_url |-> None, color |-> Some(255)]
      [] id = "B" -> [username |-> None, avatar_url |-> None, color |-> None]
      [] id = "Z" -> [username |-> None, avatar_url |-> None, color |-> None]

\* toml::from_str into TemplateConfig: fields becomes a HashMap, which keeps
\* the entries and iterates them in an order of its own
HashMapOrders(id) == Perms(DeclaredFields(id))

TemplateConfigs(id) ==
    {[id |-> id, template |-> TemplateInfo(id), fields |-> f,
      webhook |-> WebhookConfig(id)] : f \in HashMapOrders(id)}

\* a .toml file of the directory that toml::from_str cannot parse
MalformedFiles == {"M"}

\* a templates directory: whether fs::read_dir can read it, and its .toml
\* files in the order read_dir yields them
Dir(readable, files) == [readable |-> readable, files |-> files]

\* the directories the wizard is started in: no templates directory, one that
\* cannot be read, or one holding some of the files
Directories ==
    {None, Some(Dir(FALSE, <<>>))} \cup
    {Some(Dir(TRUE, l)) : l \in UNION {
        {l \in [1..n -> TemplateFiles \cup MalformedFiles] :
            \A i, j \in 1..n : i # j => l[i] # l[j]}
        : n \in 0..MaxTemplates}}

\* Result<Vec<(String, TemplateConfig)>>
Ok(v) == [ok |-> TRUE, templates |-> v]

Err == [ok |-> FALSE, templates |-> <<>>]

\* load_templates: no directory gives an empty Vec; otherwise the ? on
\* fs::read_dir returns its error, or there is one entry per file in
\* read_dir's order, and the ? on toml::from_str returns the error of the
\* first file that does not parse
load_templates(dir) ==
    IF dir = None THEN {Ok(<<>>)}
    ELSE LET l == Unwrap(dir).files
         IN  IF ~Unwrap(dir).readable \/ \E i \in 1..Len(l) : l[i] \in MalformedFiles
             THEN {Err}
             ELSE {Ok(v) : v \in {v \in [1..Len(l) ->
                                         UNION {TemplateConfigs(id) : id \in TemplateFiles}] :
                                     \A i \in 1..Len(l) : v[i].id = l[i]}}

----------------------------------------------------------------------------
(* parse_webhook_url *)

HttpsScheme == <<"h", "t", "t", "p", "s", ":", "/", "/">>

DiscordHost == <<"d", "i", "s", "c", "o", "r", "d", ".", "c", "o", "m">>

WebhooksPath == <<"/", "a", "p", "i", "/", "w", "e", "b", "h", "o", "o", "k", "s", "/">>

\* "https://discord.com/api/webhooks/"
DiscordWebhooks == HttpsScheme \o DiscordHost \o WebhooksPath

\* str::starts_with
starts_with(s, prefix) ==
    Len(prefix) <= Len(s) /\ SubSeq(s, 1, Len(prefix)) = prefix

\* \d, as far as ASCII goes
Digits == {"0", "1", "2", "3", "4", "5", "6", "7", "8", "9"}

\* [a-zA-Z0-9_-]
TokenChars ==
    Digits \cup {"_", "-"} \cup
    {"a", "b", "c", "d", "e", "f", "g", "h", "i", "j", "k", "l", "m",
     "n", "o", "p", "q", "r", "s", "t", "u", "v", "w", "x", "y", "z"} \cup
    {"A", "B", "C", "D", "E", "F", "G", "H", "I", "J", "K", "L", "M",
     "N", "O", "P", "Q", "R", "S", "T", "U", "V", "W", "X", "Y", "Z"}

\* Regex::new(r"^(\d+)/([a-zA-Z0-9_-]+)$").is_match
webhook_regex(s) ==
    \E i \in 2..(Len(s) - 1) :
        /\ s[i] = "/"
        /\ \A j \in 1..(i - 1) : s[j] \in Digits
        /\ \A j \in (i + 1)..Len(s) : s[j] \in TokenChars

\* Result<String>
OkUrl(url) == [ok |-> TRUE, url |-> url]

ErrUrl == [ok |-> FALSE, url |-> EmptyString]

\* a faulty parse that returns the scheme-less form as it is; C22 tells it
\* from parse_webhook_url
ParseKeepsSchemeless(input) ==
    IF starts_with(input, DiscordWebhooks) THEN OkUrl(input)
    ELSE IF webhook_regex(input) THEN OkUrl(DiscordWebhooks \o input)
    ELSE IF starts_with(input, DiscordHost \o WebhooksPath) THEN OkUrl(input)
    ELSE ErrUrl

parse_webhook_url(input) ==
    IF starts_with(input, DiscordWebhooks) THEN OkUrl(input)
    ELSE IF webhook_regex(input) THEN OkUrl(DiscordWebhooks \o input)
    ELSE IF starts_with(input, DiscordHost \o WebhooksPath)
         THEN OkUrl(HttpsScheme \o input)
    ELSE ErrUrl

\* Url::parse(&webhook_url).is_ok(), on what parse_webhook_url returns: an
\* https url with a host parses whatever its path is
UrlParses(url) ==
    /\ starts_with(url, HttpsScheme)
    /\ Len(url) > Len(HttpsScheme)
    /\ url[Len(HttpsScheme) + 1] # "/"

----------------------------------------------------------------------------
(* AppState *)

TemplateSelection == [tag |-> "TemplateSelection"]

FormFilling == [tag |-> "FormFilling"]

Preview == [tag |-> "Preview"]

Sending == [tag |-> "Sending"]

Result(success, message) == [tag |-> "Result", success |-> success, message |-> message]

----------------------------------------------------------------------------
(* Key events: crossterm KeyCode *)

Key(code) == [code |-> code, c |-> ""]

Char(c) == [code |-> "Char", c |-> c]

\* the chars the model types; 'q', 'j', 'k' and ' ' have arms of their own
Chars == {"q", "j", "x"}

Keys ==
    {Key(k) : k \in {"Esc", "Enter", "Up", "Down", "Tab", "BackTab", "Backspace", "F1"}}
    \cup {Char(c) : c \in Chars}

----------------------------------------------------------------------------
(* App: the methods' pure parts *)

\* the template selected_template names (templates[i] is 0-based in the code)
TemplateAt(i) == templates[i + 1]

FieldCount(t) == Len(t.fields)

\* a faulty next_template that stops at the last template; C4 tells it from
\* NextTemplateIndex
NextTemplateNoWrap(selected, n) ==
    IF IsSome(selected)
    THEN (IF Unwrap(selected) >= n - 1 THEN n - 1 ELSE Unwrap(selected) + 1)
    ELSE 0

\* App::next_template, the index it selects
NextTemplateIndex(selected, n) ==
    IF IsSome(selected)
    THEN (IF Unwrap(selected) >= n - 1 THEN 0 ELSE Unwrap(selected) + 1)
    ELSE 0

\* App::previous_template, the index it selects
PreviousTemplateIndex(selected, n) ==
    IF IsSome(selected)
    THEN (IF Unwrap(selected) = 0 THEN n - 1 ELSE Unwrap(selected) - 1)
    ELSE 0

\* the keys of a template's fields
FieldKeys(t) == {t.fields[i].key : i \in 1..Len(t.fields)}

\* template.fields.get(key)
FieldConfig(t, k) == CHOOSE f \in Range(t.fields) : f.key = k

\* a faulty clear that leaves the entries; C1 tells it from Clear
ClearKeepsEntries(map) == map

\* HashMap::clear
Clear(map) == [k \in {} |-> EmptyString]

\* App::select_template, the loop that fills field_values: it inserts every
\* field's default, or String::new() for a field that declares none
\* a faulty initialisation that inserts only the fields that declare a
\* default; C24 tells it from InsertDefaults
InsertDeclaredDefaultsOnly(t, map) ==
    [k \in DOMAIN map \cup {k \in FieldKeys(t) : IsSome(FieldConfig(t, k).default)} |->
        IF k \in FieldKeys(t) THEN Unwrap(FieldConfig(t, k).default) ELSE map[k]]

\* App::select_template, its loop over template.fields: every field gets its
\* default, or the empty string
InsertDefaults(t, map) ==
    [k \in DOMAIN map \cup FieldKeys(t) |->
        IF k \in FieldKeys(t)
        THEN (IF IsSome(FieldConfig(t, k).default)
              THEN Unwrap(FieldConfig(t, k).default) ELSE EmptyString)
        ELSE map[k]]

\* a faulty test of next_field, off by one; C5 tells it from BelowLastField
BelowFieldCount(cur, n) == IF n = 0 THEN TRUE ELSE cur < n

\* App::next_field, its test current_field < template.fields.len() - 1.  With
\* no fields the subtraction underflows: a build with overflow checks panics
\* there, and one without wraps to usize::MAX, which every cursor is below.
BelowLastField(cur, n) == IF n = 0 THEN TRUE ELSE cur < n - 1

\* App::previous_field, the cursor it leaves
PreviousFieldIndex(cur) == IF cur > 0 THEN cur - 1 ELSE cur

\* field_names.get(self.current_field) of update_current_field and
\* get_current_field_value: the key at the cursor in the map's own order
FieldNameAt(t, cur) ==
    IF cur < Len(t.fields) THEN Some(t.fields[cur + 1].key) ELSE None

\* App::get_current_field_value
get_current_field_value ==
    IF IsSome(selected_template)
    THEN LET name == FieldNameAt(TemplateAt(Unwrap(selected_template)), current_field)
         IN  IF IsSome(name)
             THEN (IF Unwrap(name) \in DOMAIN field_values
                   THEN field_values[Unwrap(name)] ELSE EmptyString)
             ELSE EmptyString
    ELSE EmptyString

\* HashMap::insert
Insert(map, k, v) == [x \in DOMAIN map \cup {k} |-> IF x = k THEN v ELSE map[x]]

\* a faulty update_current_field that writes the first field whatever the
\* cursor; C6 tells it from update_current_field
UpdateFirstField(value) ==
    IF IsSome(selected_template)
    THEN LET name == FieldNameAt(TemplateAt(Unwrap(selected_template)), 0)
         IN  IF IsSome(name) THEN Insert(field_values, Unwrap(name), value)
             ELSE field_values
    ELSE field_values

\* App::update_current_field, the field_values it leaves
update_current_field(value) ==
    IF IsSome(selected_template)
    THEN LET name == FieldNameAt(TemplateAt(Unwrap(selected_template)), current_field)
         IN  IF IsSome(name) THEN Insert(field_values, Unwrap(name), value)
             ELSE field_values
    ELSE field_values

----------------------------------------------------------------------------
(* App::send_webhook: the payload *)

DiscordField(name, value) == [name |-> name, value |-> value, inline |-> FALSE]

\* a faulty test that lets empty values into the payload; C2 tells it from
\* HasValue
KeepsEveryValue(values, f) == f.key \in DOMAIN values

\* the test that lets a field into the payload: a value is there and is not empty
HasValue(values, f) ==
    /\ f.key \in DOMAIN values
    /\ values[f.key] # EmptyString

\* the loop over template.fields that pushes the DiscordFields
RECURSIVE PayloadFields(_, _)
PayloadFields(fields, values) ==
    IF fields = <<>> THEN <<>>
    ELSE LET f == Head(fields)
             rest == PayloadFields(Tail(fields), values)
         IN  IF HasValue(values, f)
             THEN <<DiscordField(f.label, values[f.key])>> \o rest
             ELSE rest

DiscordEmbed(t, values) ==
    [title |-> Some(t.template.name),
     description |-> Some(t.template.description),
     color |-> t.webhook.color,
     fields |-> PayloadFields(t.fields, values)]

DiscordWebhook(t, values) ==
    [username |-> t.webhook.username,
     avatar_url |-> t.webhook.avatar_url,
     embeds |-> <<DiscordEmbed(t, values)>>]

\* a faulty post to a url written into the code; C13 tells it from Post
PostToFixedUrl(url, webhook) ==
    [url |-> DiscordWebhooks \o <<"1", "/", "a">>, json |-> webhook]

\* client.post(&self.webhook_url).json(&webhook)
Post(url, webhook) == [url |-> url, json |-> webhook]

----------------------------------------------------------------------------
(* App::send_webhook: what the request can come back with *)

\* Ok(resp): a status, and the body when resp.text() can read it
HttpResponse(status, text) ==
    [ok |-> TRUE, status |-> status, text |-> text,
     is_timeout |-> FALSE, is_connect |-> FALSE, is_request |-> FALSE, display |-> ""]

\* Err(e): a reqwest::Error and what its is_timeout, is_connect, is_request say
TransportError(is_timeout, is_connect, is_request, display) ==
    [ok |-> FALSE, status |-> 0, text |-> None,
     is_timeout |-> is_timeout, is_connect |-> is_connect, is_request |-> is_request,
     display |-> display]

Statuses == {200, 204, 404, 500}

Responses ==
    {HttpResponse(s, b) : s \in Statuses, b \in {Some("Not Found"), None}}
    \cup {TransportError(TRUE, FALSE, TRUE, "operation timed out"),
          TransportError(TRUE, TRUE, TRUE, "connect timed out"),
          TransportError(FALSE, TRUE, TRUE, "connection refused"),
          TransportError(FALSE, FALSE, TRUE, "request failed"),
          TransportError(FALSE, FALSE, FALSE, "builder error")}

\* a faulty is_success that takes every status from 200 up for a success;
\* C11 tells it from is_success
SuccessFrom200(status) == 200 <= status

\* StatusCode::is_success
is_success(status) == 200 <= status /\ status <= 299

Message(text, status, detail) == [text |-> text, status |-> status, detail |-> detail]

\* a faulty chain that asks is_connect before is_timeout; C12 tells it from
\* error_msg
ErrorMsgConnectFirst(e) ==
    IF e.is_connect THEN "Connection error - Check your internet connection"
    ELSE IF e.is_timeout THEN "Connection timeout"
    ELSE IF e.is_request THEN "Request format error"
    ELSE "Unknown connection error"

\* the if chain that picks error_msg
error_msg(e) ==
    IF e.is_timeout THEN "Connection timeout"
    ELSE IF e.is_connect THEN "Connection error - Check your internet connection"
    ELSE IF e.is_request THEN "Request format error"
    ELSE "Unknown connection error"

\* match response: the AppState::Result it stores
\* a faulty match that stores a Result for a response only and leaves
\* Sending on a transport error; C28 tells it from ResultOf
ResultOfResponsesOnly(response) ==
    IF response.ok
    THEN (IF is_success(response.status)
          THEN Result(TRUE, Message("Message sent successfully!", 0, ""))
          ELSE Result(FALSE, Message("HTTP", response.status,
                      IF IsSome(response.text) THEN Unwrap(response.text)
                      ELSE "Unknown error")))
    ELSE Sending

\* match response of send_webhook: the Result it stores
ResultOf(response) ==
    IF response.ok
    THEN (IF is_success(response.status)
          THEN Result(TRUE, Message("Message sent successfully!", 0, ""))
          ELSE Result(FALSE, Message("HTTP", response.status,
                      IF IsSome(response.text) THEN Unwrap(response.text)
                      ELSE "Unknown error")))
    ELSE Result(FALSE, Message(error_msg(response), 0, response.display))

----------------------------------------------------------------------------
(* main: the argument, the terminal, App::new *)

\* the endpoint arguments the wizard is run with: a bare pair, the
\* scheme-less form, and one that is neither
Args ==
    { <<"1", "/", "a">>,
      <<"d", "i", "s", "c", "o", "r", "d", ".", "c", "o", "m", "/", "a", "p", "i", "/", "w", "e", "b", "h", "o", "o", "k", "s", "/", "2", "/", "b">>,
      <<"n", "o", "t", "-", "a", "-", "v", "a", "l", "i", "d", "-", "t", "o", "k", "e", "n">> }

\* the process starts: nothing is parsed or loaded yet
ProcessStart(args, directories) ==
    /\ token \in args
    /\ directory \in directories
    /\ terminal = "cooked"
    /\ exit_code = None
    /\ webhook_url = EmptyString
    /\ templates = <<>>
    /\ state = TemplateSelection
    /\ selected_template = None
    /\ template_list_state = None
    /\ current_field = 0
    /\ field_values = Clear(<<>>)
    /\ request = None
    /\ pc = "main"
    /\ exit = ""

Init == ProcessStart(Args, Directories)

\* main as far as the terminal setup: parse_webhook_url(&cli.token) and
\* Url::parse, each with std::process::exit(1) on Err
main ==
    /\ pc = "main"
    /\ LET parsed == parse_webhook_url(token)
       IN  IF parsed.ok /\ UrlParses(parsed.url)
           THEN /\ webhook_url' = parsed.url
                /\ pc' = "setup"
                /\ UNCHANGED exit_code
           ELSE /\ exit_code' = Some(1)
                /\ pc' = "exited"
                /\ UNCHANGED webhook_url
    /\ UNCHANGED <<token, directory, terminal, state, templates, selected_template,
                   template_list_state, current_field, field_values, request, exit>>

\* main from the terminal setup to run_app's loop: raw mode and the alternate
\* screen, App::new(webhook_url), and run_app's app?.  When load_templates
\* fails, run_app returns its error, main restores the terminal, prints the
\* error and returns Ok(()).
App_new ==
    /\ pc = "setup"
    /\ \E loaded \in load_templates(directory) :
          IF loaded.ok
          THEN /\ templates' = loaded.templates
               /\ template_list_state' =
                     (IF loaded.templates # <<>> THEN Some(0) ELSE None)
               /\ terminal' = "alternate"
               /\ pc' = "loop"
               /\ UNCHANGED <<exit, exit_code>>
          ELSE /\ terminal' = "restored"
               /\ pc' = "returned"
               /\ exit' = "error"
               /\ exit_code' = Some(0)
               /\ UNCHANGED <<templates, template_list_state>>
    /\ state' = TemplateSelection
    /\ selected_template' = None
    /\ current_field' = 0
    /\ field_values' = Clear(field_values)
    /\ request' = None
    /\ UNCHANGED <<token, directory, webhook_url>>

----------------------------------------------------------------------------
(* run_app: one action for each arm of the match on app.state and key.code *)

\* event::read() hands the loop a key
Reading(tag) == pc = "loop" /\ state.tag = tag

\* run_app returns, by return Ok(()) or by a ? on an Err, and main restores
\* the terminal, prints the error if there is one and returns Ok(()); a
\* panic ends the process with code 101 and the terminal as it is
Return(how) ==
    /\ pc' = "returned"
    /\ exit' = how
    /\ terminal' = (IF how = "panic" THEN terminal ELSE "restored")
    /\ exit_code' = (IF how = "panic" THEN Some(101) ELSE Some(0))
    /\ UNCHANGED <<state, directory, webhook_url, templates, selected_template, template_list_state,
                   current_field, field_values, request, token>>

\* TemplateSelection: 'q' | Esc
SelectionQuit ==
    /\ Reading("TemplateSelection")
    /\ \E key \in {Char("q"), Key("Esc")} \cap Keys : Return("quit")

\* a faulty next_template without the is_empty test; C20 tells it from
\* next_template
NextTemplateOnEmptyList ==
    /\ Reading("TemplateSelection")
    /\ \E key \in {Key("Down"), Char("j")} \cap Keys :
        /\ template_list_state' =
              Some(NextTemplateIndex(template_list_state, Len(templates)))
        /\ UNCHANGED <<directory, webhook_url, state, templates, selected_template,
                       current_field, field_values, request, pc, exit, token, terminal, exit_code>>

\* TemplateSelection: Down | 'j' => app.next_template()
next_template ==
    /\ Reading("TemplateSelection")
    /\ \E key \in {Key("Down"), Char("j")} \cap Keys :
        /\ template_list_state' =
              (IF templates = <<>> THEN template_list_state
               ELSE Some(NextTemplateIndex(template_list_state, Len(templates))))
        /\ UNCHANGED <<state, directory, webhook_url, templates, selected_template, current_field,
                       field_values, request, pc, exit, token, terminal, exit_code>>

\* TemplateSelection: Up | 'k' => app.previous_template()
previous_template ==
    /\ Reading("TemplateSelection")
    /\ \E key \in {Key("Up"), Char("k")} \cap Keys :
        /\ template_list_state' =
              (IF templates = <<>> THEN template_list_state
               ELSE Some(PreviousTemplateIndex(template_list_state, Len(templates))))
        /\ UNCHANGED <<state, directory, webhook_url, templates, selected_template, current_field,
                       field_values, request, pc, exit, token, terminal, exit_code>>

\* TemplateSelection: Enter | ' ' => app.select_template()
select_template ==
    /\ Reading("TemplateSelection")
    /\ \E key \in {Key("Enter"), Char(" ")} \cap Keys :
        IF IsSome(template_list_state)
        THEN /\ selected_template' = template_list_state
             /\ state' = FormFilling
             /\ current_field' = 0
             /\ field_values' =
                   InsertDefaults(TemplateAt(Unwrap(template_list_state)),
                                  Clear(field_values))
             /\ UNCHANGED <<directory, webhook_url, templates, template_list_state, request, pc, exit, token, terminal, exit_code>>
        ELSE UNCHANGED vars

\* FormFilling: 'q'
FormQuit ==
    /\ Reading("FormFilling")
    /\ \E key \in {Char("q")} \cap Keys : Return("quit")

\* a faulty Esc that also empties the values; C15 tells it from FormEsc
FormEscClearsValues ==
    /\ Reading("FormFilling")
    /\ \E key \in {Key("Esc")} \cap Keys :
        /\ state' = TemplateSelection
        /\ field_values' = Clear(field_values)
        /\ UNCHANGED <<directory, webhook_url, templates, selected_template,
                       template_list_state, current_field, request, pc, exit, token, terminal, exit_code>>

\* FormFilling: Esc => app.state = AppState::TemplateSelection
FormEsc ==
    /\ Reading("FormFilling")
    /\ \E key \in {Key("Esc")} \cap Keys :
        /\ state' = TemplateSelection
        /\ UNCHANGED <<directory, webhook_url, templates, selected_template, template_list_state,
                       current_field, field_values, request, pc, exit, token, terminal, exit_code>>

\* FormFilling: Down | Tab => app.next_field()
next_field ==
    /\ Reading("FormFilling")
    /\ \E key \in {Key("Down"), Key("Tab")} \cap Keys :
        IF IsSome(selected_template)
        THEN LET n == FieldCount(TemplateAt(Unwrap(selected_template)))
             IN  \E overflow_checks \in BOOLEAN :
                    IF n = 0 /\ overflow_checks
                    THEN Return("panic")
                    ELSE /\ current_field' =
                               (IF BelowLastField(current_field, n)
                                THEN current_field + 1 ELSE current_field)
                         /\ current_field' <= MaxCursor
                         /\ UNCHANGED <<state, directory, webhook_url, templates, selected_template,
                                        template_list_state, field_values,
                                        request, pc, exit, token, terminal, exit_code>>
        ELSE UNCHANGED vars

\* FormFilling: Up | BackTab => app.previous_field()
previous_field ==
    /\ Reading("FormFilling")
    /\ \E key \in {Key("Up"), Key("BackTab")} \cap Keys :
        /\ current_field' = PreviousFieldIndex(current_field)
        /\ UNCHANGED <<state, directory, webhook_url, templates, selected_template, template_list_state,
                       field_values, request, pc, exit, token, terminal, exit_code>>

\* a faulty Enter that stays in the form while a required field is empty;
\* C25 tells it from FormEnter
FormEnterChecksRequired ==
    /\ Reading("FormFilling")
    /\ \E key \in {Key("Enter")} \cap Keys :
        /\ IsSome(selected_template)
        /\ \A f \in Range(TemplateAt(Unwrap(selected_template)).fields) :
              f.required = Some(TRUE) => field_values[f.key] # EmptyString
        /\ state' = Preview
        /\ UNCHANGED <<directory, webhook_url, templates, selected_template, template_list_state,
                       current_field, field_values, request, pc, exit, token, terminal, exit_code>>

\* FormFilling: Enter => app.state = AppState::Preview
FormEnter ==
    /\ Reading("FormFilling")
    /\ \E key \in {Key("Enter")} \cap Keys :
        /\ state' = Preview
        /\ UNCHANGED <<directory, webhook_url, templates, selected_template, template_list_state,
                       current_field, field_values, request, pc, exit, token, terminal, exit_code>>

\* a faulty Char arm that takes 'q' too; C30 tells it from FormChar
FormCharTakesQ(c) ==
    /\ Reading("FormFilling")
    /\ Len(get_current_field_value) < MaxLen
    /\ field_values' = update_current_field(Push(get_current_field_value, c))
    /\ UNCHANGED <<state, directory, webhook_url, templates, selected_template, template_list_state,
                   current_field, request, pc, exit, token, terminal, exit_code>>

\* FormFilling: Char(c), for every c but 'q', which the arm above takes
FormChar(c) ==
    /\ Reading("FormFilling")
    /\ c # "q"
    /\ Len(get_current_field_value) < MaxLen
    /\ field_values' = update_current_field(Push(get_current_field_value, c))
    /\ UNCHANGED <<state, directory, webhook_url, templates, selected_template, template_list_state,
                   current_field, request, pc, exit, token, terminal, exit_code>>

\* FormFilling: Backspace
FormBackspace ==
    /\ Reading("FormFilling")
    /\ \E key \in {Key("Backspace")} \cap Keys :
        /\ field_values' = update_current_field(Pop(get_current_field_value))
        /\ UNCHANGED <<state, directory, webhook_url, templates, selected_template, template_list_state,
                       current_field, request, pc, exit, token, terminal, exit_code>>

\* Preview: 'q'
PreviewQuit ==
    /\ Reading("Preview")
    /\ \E key \in {Char("q")} \cap Keys : Return("quit")

\* a faulty Esc that puts the cursor back on the first field; C16 tells it
\* from PreviewEsc
PreviewEscResetsCursor ==
    /\ Reading("Preview")
    /\ \E key \in {Key("Esc")} \cap Keys :
        /\ state' = FormFilling
        /\ current_field' = 0
        /\ UNCHANGED <<directory, webhook_url, templates, selected_template,
                       template_list_state, field_values, request, pc, exit, token, terminal, exit_code>>

\* a faulty Esc that leaves the preview for the selection screen; C27 tells
\* it from PreviewEsc
PreviewEscToSelection ==
    /\ Reading("Preview")
    /\ \E key \in {Key("Esc")} \cap Keys :
        /\ state' = TemplateSelection
        /\ UNCHANGED <<directory, webhook_url, templates, selected_template, template_list_state,
                       current_field, field_values, request, pc, exit, token, terminal, exit_code>>

\* Preview: Esc => app.state = AppState::FormFilling
PreviewEsc ==
    /\ Reading("Preview")
    /\ \E key \in {Key("Esc")} \cap Keys :
        /\ state' = FormFilling
        /\ UNCHANGED <<directory, webhook_url, templates, selected_template, template_list_state,
                       current_field, field_values, request, pc, exit, token, terminal, exit_code>>

\* Preview: Enter | ' ' => app.send_webhook().await?, as far as the await on
\* send(): the payload, the client, state = Sending, the POST.  When
\* Client::builder().build() fails, the ? returns the error out of
\* send_webhook and the ? on the call returns it out of run_app.
send_webhook ==
    /\ Reading("Preview")
    /\ \E key \in {Key("Enter"), Char(" ")} \cap Keys :
        IF IsSome(selected_template)
        THEN \E client_built \in BOOLEAN :
                IF client_built
                THEN /\ state' = Sending
                     /\ request' = Some(Post(webhook_url,
                                       DiscordWebhook(
                                           TemplateAt(Unwrap(selected_template)),
                                           field_values)))
                     /\ pc' = "send_await"
                     /\ UNCHANGED <<directory, webhook_url, templates, selected_template,
                                    template_list_state, current_field,
                                    field_values, exit, token, terminal, exit_code>>
                ELSE Return("error")
        ELSE UNCHANGED vars

\* a faulty return that empties the values once the request is back; C17
\* tells it from send_webhook_returns
SendWebhookReturnsAndClears(response) ==
        /\ pc = "send_await"
        /\ state' = ResultOf(response)
        /\ request' = None
        /\ pc' = "loop"
        /\ field_values' = Clear(field_values)
        /\ UNCHANGED <<directory, webhook_url, templates, selected_template,
                       template_list_state, current_field, exit, token, terminal, exit_code>>

\* send_webhook from the await on: the request comes back, within the
\* client's timeout, and match response stores the Result
send_webhook_returns(response) ==
        /\ pc = "send_await"
        /\ state' = ResultOf(response)
        /\ request' = None
        /\ pc' = "loop"
        /\ UNCHANGED <<directory, webhook_url, templates, selected_template, template_list_state,
                       current_field, field_values, exit, token, terminal, exit_code>>

send_webhook_response == \E response \in Responses : send_webhook_returns(response)

\* Result: 'q'
ResultQuit ==
    /\ Reading("Result")
    /\ \E key \in {Char("q")} \cap Keys : Return("quit")

\* an acknowledgement that also resets the session, as C8 is claimed; C8 as
\* the code has it tells it from ResultAcknowledge
ResultAcknowledgeResets ==
    /\ Reading("Result")
    /\ \E key \in {Key("Enter"), Key("Esc"), Char(" ")} \cap Keys :
        /\ state' = TemplateSelection
        /\ selected_template' = None
        /\ current_field' = 0
        /\ field_values' = Clear(field_values)
        /\ UNCHANGED <<directory, webhook_url, templates, template_list_state, request, pc, exit, token, terminal, exit_code>>

\* a faulty acknowledgement that loads the templates again; C26 tells it
\* from ResultAcknowledge
ResultAcknowledgeReloads ==
    /\ Reading("Result")
    /\ \E key \in {Key("Enter"), Key("Esc"), Char(" ")} \cap Keys :
        /\ state' = TemplateSelection
        /\ \E loaded \in load_templates(directory) : templates' = loaded.templates
        /\ UNCHANGED <<directory, webhook_url, selected_template, template_list_state,
                       current_field, field_values, request, pc, exit, token, terminal, exit_code>>

\* Result: Enter | Esc | ' ' => app.state = AppState::TemplateSelection
ResultAcknowledge ==
    /\ Reading("Result")
    /\ \E key \in {Key("Enter"), Key("Esc"), Char(" ")} \cap Keys :
        /\ state' = TemplateSelection
        /\ UNCHANGED <<directory, webhook_url, templates, selected_template, template_list_state,
                       current_field, field_values, request, pc, exit, token, terminal, exit_code>>

\* the keys a state's match has an arm for; the Sending arm takes every key
\* and only sleeps
HasArm(tag, key) ==
    CASE tag = "TemplateSelection" ->
            key \in {Char("q"), Key("Esc"), Key("Down"), Char("j"), Key("Up"),
                     Char("k"), Key("Enter"), Char(" ")}
      [] tag = "FormFilling" ->
            \/ key.code = "Char"
            \/ key \in {Key("Esc"), Key("Down"), Key("Tab"), Key("Up"),
                        Key("BackTab"), Key("Enter"), Key("Backspace")}
      [] tag = "Preview" ->
            key \in {Char("q"), Key("Esc"), Key("Enter"), Char(" ")}
      [] tag = "Sending" -> FALSE
      [] tag = "Result" ->
            key \in {Char("q"), Key("Enter"), Key("Esc"), Char(" ")}

\* _ => {}
IgnoredKey ==
    /\ pc = "loop"
    /\ \E key \in Keys : ~HasArm(state.tag, key)
    /\ UNCHANGED vars

Next ==
    \/ main
    \/ App_new
    \/ SelectionQuit
    \/ next_template
    \/ previous_template
    \/ select_template
    \/ FormQuit
    \/ FormEsc
    \/ next_field
    \/ previous_field
    \/ FormEnter
    \/ \E c \in Chars : FormChar(c)
    \/ FormBackspace
    \/ PreviewQuit
    \/ PreviewEsc
    \/ send_webhook
    \/ send_webhook_response
    \/ ResultQuit
    \/ ResultAcknowledge
    \/ IgnoredKey

Spec == Init /\ [][Next]_vars

\* parse_webhook_url on its own: main run on many arguments, as far as the
\* terminal setup
MaxTail == 3

TailChars == {"1", "a", "/", "!"}

Tails == UNION {[1..n -> TailChars] : n \in 0..MaxTail}

HttpScheme == <<"h", "t", "t", "p", ":", "/", "/">>

ExampleHost == <<"e", "x", "a", "m", "p", "l", "e", ".", "c", "o", "m">>

Prefixes ==
    { EmptyString,
      DiscordHost \o WebhooksPath,
      DiscordWebhooks,
      HttpScheme \o DiscordHost \o WebhooksPath,
      HttpsScheme \o ExampleHost \o WebhooksPath }

Tokens ==
    {prefix \o tail : prefix \in Prefixes, tail \in Tails} \cup
    { <<"1", "2", "3", "4", "5", "6", "/", "a", "b", "c", "D", "E", "F">>,
      <<"d", "i", "s", "c", "o", "r", "d", ".", "c", "o", "m", "/", "a", "p", "i", "/", "w", "e", "b", "h", "o", "o", "k", "s", "/", "1", "/", "2">>,
      <<"n", "o", "t", "-", "a", "-", "v", "a", "l", "i", "d", "-", "t", "o", "k", "e", "n">> }

ParseInit == ProcessStart(Tokens, {None})

ParseSpec == ParseInit /\ [][main]_vars

\* the request is bounded by the client's 30 s timeout, so the await returns
FairSpec == Spec /\ WF_vars(send_webhook_response)

----------------------------------------------------------------------------
(* Vocabulary of the properties *)

\* a session exists: a template has been selected
HasSession == IsSome(selected_template)

\* the template of the session
SessionTemplate == TemplateAt(Unwrap(selected_template))

\* the session: active template, cursor and values
session == <<selected_template, current_field, field_values>>

\* what a template file declares for its values: each declared field's
\* default, or the empty string
DeclaredDefaults(id) ==
    LET d == DeclaredFields(id)
    IN  [k \in {d[i].key : i \in 1..Len(d)} |->
            LET i == CHOOSE i \in 1..Len(d) : d[i].key = k
            IN  IF d[i].default = None THEN EmptyString ELSE d[i].default[1]]

\* s is t without its last char
IsInit(s, t) == Len(t) = Len(s) + 1 /\ \A i \in 1..Len(s) : s[i] = t[i]

\* the field the cursor is on, when it is on one
CursorOnField == HasSession /\ current_field < FieldCount(SessionTemplate)

CursorKey == SessionTemplate.fields[current_field + 1].key

\* only the value under the cursor may differ after the step
OnlyCursorValueChanges ==
    /\ DOMAIN field_values' = DOMAIN field_values
    /\ \A k \in DOMAIN field_values : k # CursorKey => field_values'[k] = field_values[k]
    /\ UNCHANGED <<state, directory, webhook_url, templates, selected_template, template_list_state, current_field, token, terminal, exit_code>>

----------------------------------------------------------------------------
(* C1: confirm in the selection screen always opens the form on the chosen  *)
(* template with the cursor on 0 and with the values exactly the declared   *)
(* defaults (the empty string where none is declared), whatever an earlier  *)
(* session left in field_values.                                            *)

C1_SelectReinitialises ==
    [][(select_template /\ templates # <<>>) =>
          /\ state' = FormFilling
          /\ current_field' = 0
          /\ selected_template' = template_list_state
          /\ field_values' = DeclaredDefaults(TemplateAt(Unwrap(template_list_state)).id)
      ]_vars

\* template A reopened on its defaults while it is not first in the list
C1_Witness ==
    /\ state = FormFilling
    /\ HasSession
    /\ Unwrap(selected_template) > 0
    /\ SessionTemplate.id = "A"
    /\ current_field = 0
    /\ field_values = [k \in {"title", "body"} |-> IF k = "title" THEN <<"d">> ELSE <<>>]

----------------------------------------------------------------------------
(* C2: the payload posted holds an entry for a field exactly when the       *)
(* field's value is not empty, and the entry carries the field's label and  *)
(* its value.                                                               *)

C2_PayloadIffNonEmpty ==
    IsSome(request) =>
        LET declared == Range(DeclaredFields(SessionTemplate.id))
            entries == Unwrap(request).json.embeds[1].fields
        IN  /\ \A i \in 1..Len(entries) :
                  /\ entries[i].value # EmptyString
                  /\ \E f \in declared :
                        /\ entries[i].name = f.label
                        /\ entries[i].value = field_values[f.key]
            /\ \A f \in declared :
                  field_values[f.key] # EmptyString =>
                      \E i \in 1..Len(entries) :
                          /\ entries[i].name = f.label
                          /\ entries[i].value = field_values[f.key]
            /\ Len(entries) =
                  Cardinality({f \in declared : field_values[f.key] # EmptyString})

\* a request for template A with one value filled and one left empty
C2_Witness ==
    /\ IsSome(request)
    /\ SessionTemplate.id = "A"
    /\ field_values["title"] = EmptyString
    /\ field_values["body"] # EmptyString
    /\ Len(Unwrap(request).json.embeds[1].fields) = 1

----------------------------------------------------------------------------
(* C3: the fields of a template are enumerated in the order its file        *)
(* declares them: the cursor at i is on the i-th declared field and the     *)
(* payload lists its entries in declaration order.                          *)

\* the labels of the declared fields with a value, in declaration order
RECURSIVE DeclaredLabelsWithValue(_, _)
DeclaredLabelsWithValue(fields, values) ==
    IF fields = <<>> THEN <<>>
    ELSE IF values[Head(fields).key] # EmptyString
         THEN <<Head(fields).label>> \o DeclaredLabelsWithValue(Tail(fields), values)
         ELSE DeclaredLabelsWithValue(Tail(fields), values)

C3_DeclarationOrder ==
    /\ (state.tag = "FormFilling" /\ CursorOnField) =>
          CursorKey = DeclaredFields(SessionTemplate.id)[current_field + 1].key
    /\ IsSome(request) =>
          LET entries == Unwrap(request).json.embeds[1].fields
          IN  [i \in 1..Len(entries) |-> entries[i].name] =
                  DeclaredLabelsWithValue(DeclaredFields(SessionTemplate.id), field_values)

----------------------------------------------------------------------------
(* C4: in the selection screen with n > 0 templates, next moves the         *)
(* selection from i to (i+1) mod n and prev from i to (i-1) mod n, so both  *)
(* wrap at the ends and n of either in a row come back to the start.        *)

\* k times next, and k times prev, from index i of n templates
RECURSIVE NextTimes(_, _, _)
NextTimes(k, i, n) ==
    IF k = 0 THEN i ELSE NextTimes(k - 1, NextTemplateIndex(Some(i), n), n)

RECURSIVE PreviousTimes(_, _, _)
PreviousTimes(k, i, n) ==
    IF k = 0 THEN i ELSE PreviousTimes(k - 1, PreviousTemplateIndex(Some(i), n), n)

C4_TemplatesWrap ==
    /\ [](templates # <<>> =>
            /\ IsSome(template_list_state)
            /\ Unwrap(template_list_state) \in 0..(Len(templates) - 1)
            /\ \A i \in 0..(Len(templates) - 1) :
                  /\ NextTimes(Len(templates), i, Len(templates)) = i
                  /\ PreviousTimes(Len(templates), i, Len(templates)) = i)
    /\ [][templates # <<>> =>
            LET n == Len(templates)
                i == Unwrap(template_list_state)
            IN  /\ next_template =>
                      template_list_state' = Some((i + 1) % n)
                /\ previous_template =>
                      template_list_state' = Some((i + n - 1) % n)
         ]_vars

\* the last of three templates selected before any session: reached by one
\* prev from the first, or by two next
C4_Witness ==
    /\ state = TemplateSelection
    /\ Len(templates) = 3
    /\ template_list_state = Some(2)
    /\ ~HasSession

----------------------------------------------------------------------------
(* C5: in the form of a template with at least one field, next field adds   *)
(* one to the cursor except on the last field, prev field takes one off     *)
(* except on the first, and the cursor always stays within                  *)
(* 0..field_count-1.                                                        *)

C5_CursorClamped ==
    /\ []((HasSession /\ FieldCount(SessionTemplate) >= 1) =>
            (0 <= current_field /\ current_field <= FieldCount(SessionTemplate) - 1))
    /\ [][(HasSession /\ FieldCount(SessionTemplate) >= 1) =>
            LET n == FieldCount(SessionTemplate)
            IN  /\ next_field =>
                      current_field' =
                          (IF current_field = n - 1 THEN current_field
                           ELSE current_field + 1)
                /\ previous_field =>
                      current_field' =
                          (IF current_field = 0 THEN 0 ELSE current_field - 1)
         ]_vars

\* the cursor on the last field of template A
C5_Witness ==
    /\ state = FormFilling
    /\ HasSession
    /\ FieldCount(SessionTemplate) = 2
    /\ current_field = 1

----------------------------------------------------------------------------
(* C6: a char typed in the form is appended to the end of the value under   *)
(* the cursor; no other value, nor the cursor, the template or the screen,  *)
(* changes.                                                                 *)

C6_CharAppends ==
    [][\A c \in Chars :
          (FormChar(c) /\ CursorOnField) =>
              /\ field_values'[CursorKey] = field_values[CursorKey] \o <<c>>
              /\ OnlyCursorValueChanges
      ]_vars

\* "x" typed after the default of the second field in the map's order,
\* the other value as select_template left it
C6_Witness ==
    /\ state = FormFilling
    /\ HasSession
    /\ SessionTemplate.id = "A"
    /\ current_field = 1
    /\ CursorKey = "title"
    /\ field_values["title"] = <<"d", "x">>
    /\ field_values["body"] = EmptyString

----------------------------------------------------------------------------
(* C7: backspace in the form removes the last char of the value under the   *)
(* cursor and changes no other value; on an empty value it changes          *)
(* nothing, and the key stays in the map.                                   *)

C7_BackspaceRemovesLast ==
    [][(FormBackspace /\ CursorOnField) =>
          /\ IF field_values[CursorKey] = EmptyString
             THEN field_values'[CursorKey] = EmptyString
             ELSE IsInit(field_values'[CursorKey], field_values[CursorKey])
          /\ OnlyCursorValueChanges
      ]_vars

\* the default of "title" erased to the empty value, the other value kept
C7_Witness ==
    /\ state = FormFilling
    /\ HasSession
    /\ SessionTemplate.id = "A"
    /\ CursorOnField
    /\ CursorKey = "title"
    /\ field_values["title"] = EmptyString
    /\ field_values["body"] = <<"x", "j">>

----------------------------------------------------------------------------
(* C8: acknowledging a result goes back to the selection screen.            *)

----------------------------------------------------------------------------
(* C9: no failure of a dispatch started from the preview ends the wizard:   *)
(* each leaves it running, showing a Result that reports the failure.       *)

\* the outcomes that are failures: a status outside 2xx, or no response
IsFailure(response) ==
    ~response.ok \/ response.status < 200 \/ response.status > 299

C9_DispatchErrorsNeverEndSession ==
    /\ [][send_webhook => (pc' # "returned" /\ exit' = "")]_vars
    /\ [][\A response \in Responses :
            (pc = "send_await" /\ IsFailure(response)
                 /\ state' = ResultOf(response)) =>
                (state'.tag = "Result" /\ ~state'.success /\ pc' = "loop" /\ exit' = "")
         ]_vars

\* the part of C9 the code keeps: once the request is sent, every way it can
\* fail is shown as a failed Result with the wizard running
C9_SentRequestFailuresAreShown ==
    [][send_webhook_response =>
          /\ state'.tag = "Result"
          /\ pc' = "loop"
          /\ exit' = ""
          /\ \A response \in Responses :
                (IsFailure(response) /\ state' = ResultOf(response)) => ~state'.success
      ]_vars

----------------------------------------------------------------------------
(* C10: every dispatch that confirm in the preview starts reaches a         *)
(* Result: the request is bounded by the timeout, so the wizard does not    *)
(* stay in Sending.                                                         *)

C10_DispatchReachesResult ==
    /\ [][send_webhook => state'.tag = "Sending"]_vars
    /\ (state.tag = "Sending" ~> state.tag = "Result")

\* the part of C10 the code keeps: a request that was sent comes back
C10_SendingReachesResult == state.tag = "Sending" ~> state.tag = "Result"

----------------------------------------------------------------------------
(* C11: the Result reports success exactly when the endpoint answered with  *)
(* a 2xx status; for any other status it reports a failure that carries     *)
(* the status and the body, or "Unknown error" when the body cannot be      *)
(* read.                                                                    *)

C11_SuccessIffStatus2xx ==
    [][\A response \in Responses :
          send_webhook_returns(response) =>
              /\ state'.tag = "Result"
              /\ state'.success <=>
                    (response.ok /\ response.status \in 200..299)
              /\ (response.ok /\ response.status \notin 200..299) =>
                    /\ state'.message.status = response.status
                    /\ state'.message.detail =
                          (IF response.text = None THEN "Unknown error"
                           ELSE response.text[1])
      ]_vars

\* a 404 with the body "Not Found", shown as the failure HTTP 404: Not Found
C11_Witness ==
    /\ state.tag = "Result"
    /\ ~state.success
    /\ state.message.status = 404
    /\ state.message.detail = "Not Found"

----------------------------------------------------------------------------
(* C12: a request that fails without a response is shown as a failure of    *)
(* exactly one kind, the first that applies of timeout, connection          *)
(* failure, malformed request, other: a timeout while connecting is a       *)
(* timeout, a refused connection is a connection failure.                   *)

C12_TransportErrorKind ==
    [][\A response \in Responses :
          (send_webhook_returns(response) /\ ~response.ok) =>
              /\ state'.tag = "Result"
              /\ ~state'.success
              /\ state'.message.detail = response.display
              /\ state'.message.text =
                    (CASE response.is_timeout -> "Connection timeout"
                       [] ~response.is_timeout /\ response.is_connect ->
                            "Connection error - Check your internet connection"
                       [] ~response.is_timeout /\ ~response.is_connect
                              /\ response.is_request -> "Request format error"
                       [] OTHER -> "Unknown connection error")
      ]_vars

\* a timeout while connecting, which is_timeout and is_connect both hold of,
\* shown as a timeout
C12_Witness ==
    /\ state.tag = "Result"
    /\ ~state.success
    /\ state.message.text = "Connection timeout"
    /\ state.message.detail = "connect timed out"

----------------------------------------------------------------------------
(* C13: confirm in the preview is the only thing that sends a request, and  *)
(* it sends one POST to the webhook url the wizard was started with.        *)

\* a step that sends a request
SendsRequest == IsSome(request') /\ request' # request

----------------------------------------------------------------------------
(* C14: quit ends the loop from every state of the wizard, the one in       *)
(* which a request is in flight included, and nothing changes after it.     *)

\* the arms that return on 'q'
QuitKey == SelectionQuit \/ FormQuit \/ PreviewQuit \/ ResultQuit

C14_QuitFromAnyState ==
    /\ pc \in {"loop", "send_await"} => ENABLED QuitKey
    /\ exit = "quit" => ~ENABLED Next

\* the part of C14 the code keeps: wherever the loop reads a key, 'q' returns
C14_QuitWhereKeysAreRead ==
    /\ pc = "loop" => ENABLED QuitKey
    /\ exit = "quit" => ~ENABLED Next

----------------------------------------------------------------------------
(* C15: Esc in the form goes back to the selection screen and keeps the     *)
(* values, the cursor and the active template; next and prev in the list    *)
(* keep them too, until confirm replaces them.                              *)

C15_CancelKeepsSession ==
    /\ [][FormEsc => (state' = TemplateSelection /\ UNCHANGED session)]_vars
    /\ [][(next_template \/ previous_template) =>
            (state' = TemplateSelection /\ UNCHANGED session)]_vars

\* the form of A left with a typed value and the cursor on its second
\* field, and the list then moved to another template
C15_Witness ==
    /\ state = TemplateSelection
    /\ HasSession
    /\ SessionTemplate.id = "A"
    /\ template_list_state # selected_template
    /\ current_field = 1
    /\ field_values[CursorKey] = <<"x", "j">>

----------------------------------------------------------------------------
(* C16: Enter in the form and then Esc in the preview is a round trip: the  *)
(* form is back with the cursor and the values it had, whatever they were.  *)

C16_PreviewRoundTrip ==
    /\ [][FormEnter => (state' = Preview /\ UNCHANGED session)]_vars
    /\ [][PreviewEsc => (state' = FormFilling /\ UNCHANGED session)]_vars
    /\ [][(state = Preview /\ state' = Preview) => UNCHANGED session]_vars

\* the preview of A entered from its second field with both values typed
C16_Witness ==
    /\ state = Preview
    /\ HasSession
    /\ SessionTemplate.id = "A"
    /\ current_field = 1
    /\ field_values["title"] = <<"d", "x">>
    /\ field_values["body"] = <<"j">>

----------------------------------------------------------------------------
(* C17: while a request is in flight nothing edits the session: from the    *)
(* confirm in the preview until the Result the values, the cursor and the   *)
(* active template are as they were.                                        *)

C17_NoEditWhileSending ==
    /\ [][send_webhook => UNCHANGED session]_vars
    /\ [][state = Sending =>
            (UNCHANGED session /\ state'.tag \in {"Sending", "Result"})]_vars

\* a Result shown for template A with the values that were sent
C17_Witness ==
    /\ state.tag = "Result"
    /\ HasSession
    /\ SessionTemplate.id = "A"
    /\ current_field = 1
    /\ field_values["title"] = <<"d">>
    /\ field_values["body"] = <<"x">>

----------------------------------------------------------------------------
(* C18: while a request is in flight the loop keeps running: it draws the   *)
(* Sending screen at least once before the request is back, so the          *)
(* dispatch does not block it.                                              *)

\* the screen terminal.draw showed last: the loop draws app.state at the top
\* of every turn, and is not at the top while send_webhook awaits
ScreenShown == IF pc = "send_await" THEN "Preview" ELSE state.tag

C18_SendingIsDrawn ==
    IsSome(request) => (pc = "loop" /\ ScreenShown = "Sending")

----------------------------------------------------------------------------
(* C19: a template file that does not parse is skipped: the store holds     *)
(* exactly the well-formed files of the directory and the wizard starts in  *)
(* the selection screen.                                                    *)

\* the files of a listing that parse, in the listing's order
WellFormedFiles(l) == SelectSeq(l, LAMBDA f : f \notin MalformedFiles)

\* run_app returned the error of App::new before its loop
StartupFailed == pc = "returned" /\ exit = "error" /\ state = TemplateSelection

\* App::new has run: main is past the argument and the terminal setup
Started == pc \notin {"main", "setup", "exited"}

\* a templates directory that read_dir can read
Readable == IsSome(directory) /\ Unwrap(directory).readable

C19_MalformedFilesSkipped ==
    (Started /\ Readable) =>
        /\ [i \in 1..Len(templates) |-> templates[i].id] =
              WellFormedFiles(Unwrap(directory).files)
        /\ ~StartupFailed

\* the part of C19 the code keeps: a directory whose files all parse is
\* loaded whole, in read_dir's order
C19_WellFormedDirectoryLoads ==
    (/\ Started
     /\ Readable
     /\ WellFormedFiles(Unwrap(directory).files) = Unwrap(directory).files) =>
        /\ [i \in 1..Len(templates) |-> templates[i].id] = Unwrap(directory).files
        /\ ~StartupFailed

----------------------------------------------------------------------------
(* C20: without a templates directory the store is empty and the wizard     *)
(* runs: it is in the selection screen with nothing selected, and next,     *)
(* prev and confirm leave it there with no session.                         *)

C20_EmptyStoreRuns ==
    /\ [](directory = None => (templates = <<>> /\ ~StartupFailed))
    /\ [][(App_new /\ directory = None) => pc' = "loop"]_vars
    /\ []((templates = <<>> /\ ~StartupFailed) =>
            /\ state = TemplateSelection
            /\ template_list_state = None
            /\ ~HasSession
            /\ field_values = Clear(field_values)
            /\ exit \in {"", "quit"})
    /\ [][templates = <<>> =>
            ((next_template \/ previous_template \/ select_template) =>
                UNCHANGED vars)]_vars

\* the wizard running on no templates directory
C20_Witness ==
    /\ directory = None
    /\ templates = <<>>
    /\ pc = "loop"
    /\ state = TemplateSelection
    /\ template_list_state = None

----------------------------------------------------------------------------
(* C21: a fatal startup error, an invalid endpoint argument or a templates  *)
(* directory that exists and cannot be read, ends the process with a        *)
(* non-zero code before the loop: the terminal never leaves its cooked      *)
(* mode for the alternate screen and no key is handled.                     *)

\* the process has ended with a code other than 0 and the terminal untouched
FatalExit(code, term) == IsSome(code) /\ Unwrap(code) # 0 /\ term = "cooked"

Unreadable == IsSome(directory) /\ ~Unwrap(directory).readable

C21_FatalStartupExitsNonZero ==
    /\ [][(main /\ ~parse_webhook_url(token).ok) =>
            (FatalExit(exit_code', terminal') /\ pc' = "exited")]_vars
    /\ [][(App_new /\ Unreadable) =>
            (FatalExit(exit_code', terminal') /\ pc' # "loop")]_vars
    /\ [][(pc = "exited" \/ StartupFailed) => UNCHANGED vars]_vars

\* the part of C21 the code keeps: an invalid argument exits with code 1
\* before the terminal is set up, and after either error no key is handled
C21_InvalidArgumentExitsOne ==
    /\ [][(main /\ ~parse_webhook_url(token).ok) =>
            (exit_code' = Some(1) /\ terminal' = "cooked" /\ pc' = "exited")]_vars
    /\ [][(App_new /\ Unreadable) => pc' = "returned"]_vars
    /\ [][(pc = "exited" \/ StartupFailed) => UNCHANGED vars]_vars

----------------------------------------------------------------------------
(* C22: the endpoint argument is normalised: a bare id/token pair is put    *)
(* after "https://discord.com/api/webhooks/", the scheme-less               *)
(* "discord.com/api/webhooks/..." gets "https://" in front, and the full    *)
(* https url is kept as it is.                                              *)

\* <id>/<token>: digits, a slash, chars of a token
IdTokenPair(s) ==
    \E i \in 1..Len(s) :
        /\ s[i] = "/"
        /\ i > 1 /\ i < Len(s)
        /\ \A j \in 1..Len(s) :
              /\ j < i => s[j] \in Digits
              /\ j > i => s[j] \in TokenChars

\* main went on with this url
Normalised(url) == pc' = "setup" /\ webhook_url' = url /\ exit_code' = None

C22_EndpointNormalised ==
    [][main =>
        /\ IdTokenPair(token) => Normalised(DiscordWebhooks \o token)
        /\ starts_with(token, DiscordHost \o WebhooksPath) =>
              Normalised(HttpsScheme \o token)
        /\ starts_with(token, DiscordWebhooks) => Normalised(token)
        /\ token = <<"1", "2", "3", "4", "5", "6", "/", "a", "b", "c", "D", "E", "F">> =>
              Normalised(<<"h", "t", "t", "p", "s", ":", "/", "/", "d", "i", "s", "c", "o", "r", "d", ".", "c", "o", "m", "/", "a", "p", "i", "/", "w", "e", "b", "h", "o", "o", "k", "s", "/", "1", "2", "3", "4", "5", "6", "/", "a", "b", "c", "D", "E", "F">>)
        /\ token = <<"d", "i", "s", "c", "o", "r", "d", ".", "c", "o", "m", "/", "a", "p", "i", "/", "w", "e", "b", "h", "o", "o", "k", "s", "/", "1", "/", "2">> =>
              Normalised(<<"h", "t", "t", "p", "s", ":", "/", "/", "d", "i", "s", "c", "o", "r", "d", ".", "c", "o", "m", "/", "a", "p", "i", "/", "w", "e", "b", "h", "o", "o", "k", "s", "/", "1", "/", "2">>)
      ]_vars

\* the scheme-less example of the claim, normalised
C22_Witness ==
    /\ token = <<"d", "i", "s", "c", "o", "r", "d", ".", "c", "o", "m", "/", "a", "p", "i", "/", "w", "e", "b", "h", "o", "o", "k", "s", "/", "1", "/", "2">>
    /\ webhook_url = <<"h", "t", "t", "p", "s", ":", "/", "/", "d", "i", "s", "c", "o", "r", "d", ".", "c", "o", "m", "/", "a", "p", "i", "/", "w", "e", "b", "h", "o", "o", "k", "s", "/", "1", "/", "2">>
    /\ pc = "setup"

----------------------------------------------------------------------------
(* C23: an endpoint argument that has none of the three accepted forms,     *)
(* the full url https://<host>/api/webhooks/<id>/<token>, the same without  *)
(* the scheme, or the bare <id>/<token>, is rejected with exit code 1; the  *)
(* accepted prefix with no <id>/<token> after it is rejected too.           *)

Hosts == {DiscordHost, ExampleHost}

AcceptedForm(s) ==
    \/ IdTokenPair(s)
    \/ \E host \in Hosts : \E scheme \in {HttpsScheme, EmptyString} :
          LET prefix == scheme \o host \o WebhooksPath
          IN  /\ starts_with(s, prefix)
              /\ IdTokenPair(SubSeq(s, Len(prefix) + 1, Len(s)))

Rejected == pc' = "exited" /\ exit_code' = Some(1)

C23_OtherFormsRejected ==
    [][main => (~AcceptedForm(token) => Rejected)]_vars

\* the part of C23 the code keeps: an argument that is no bare pair and does
\* not begin with the discord.com prefix, with or without https://, is
\* rejected with exit code 1
C23_OtherPrefixesRejected ==
    [][main =>
        ((/\ ~IdTokenPair(token)
          /\ ~starts_with(token, DiscordHost \o WebhooksPath)
          /\ ~starts_with(token, DiscordWebhooks)) => Rejected)]_vars

----------------------------------------------------------------------------
(* C24: in the form, the preview, while sending and on the result screen    *)
(* the keys of field_values are exactly the keys of the active template's   *)
(* fields: no edit, navigation or dispatch adds or removes a key.           *)

InSession == state.tag \in {"FormFilling", "Preview", "Sending", "Result"}

C24_ValueKeysAreFieldKeys ==
    InSession => (HasSession /\ DOMAIN field_values = FieldKeys(SessionTemplate))

\* the result screen of a session on A whose field without default was edited
C24_Witness ==
    /\ state.tag = "Result"
    /\ HasSession
    /\ SessionTemplate.id = "A"
    /\ field_values["body"] = <<"x">>
    /\ DOMAIN field_values = {"title", "body"}

----------------------------------------------------------------------------
(* C25: a required field left empty blocks nothing: Enter in the form       *)
(* always opens the preview, and Enter in the preview dispatches whatever   *)
(* the values are; with every value empty the payload has no fields.        *)

\* a field marked required whose value is empty
RequiredEmpty(t, values) ==
    \E f \in Range(t.fields) : f.required = Some(TRUE) /\ values[f.key] = EmptyString

AllEmpty(values) == \A k \in DOMAIN values : values[k] = EmptyString

C25_RequiredNeverBlocks ==
    /\ [](Reading("FormFilling") => ENABLED FormEnter)
    /\ [][FormEnter => (state' = Preview /\ UNCHANGED session)]_vars
    /\ []((Reading("Preview") /\ HasSession) => ENABLED (send_webhook /\ SendsRequest))
    /\ [][(send_webhook /\ SendsRequest) =>
            /\ state' = Sending
            /\ UNCHANGED session
            /\ AllEmpty(field_values) =>
                  Unwrap(request').json.embeds[1].fields = <<>>
         ]_vars

\* a dispatch in flight with a required field empty and no field in the payload
C25_Witness ==
    /\ state = Sending
    /\ HasSession
    /\ RequiredEmpty(SessionTemplate, field_values)
    /\ AllEmpty(field_values)
    /\ IsSome(request)
    /\ Unwrap(request).json.embeds[1].fields = <<>>

----------------------------------------------------------------------------
(* C26: the templates are never changed after the load: their list, their   *)
(* order and every template's fields, defaults and webhook settings are in  *)
(* every state what load_templates produced.                                *)

C26_TemplatesNeverMutated ==
    /\ [][App_new \/ templates' = templates]_vars
    /\ []((Started /\ ~StartupFailed) =>
            templates \in {loaded.templates : loaded \in load_templates(directory)})
    /\ [][directory' = directory]_vars

\* the store after a whole session: a dispatch has come back and the next
\* template is being chosen
C26_Witness ==
    /\ state = TemplateSelection
    /\ HasSession
    /\ Len(templates) = 2
    /\ template_list_state = Some(1)
    /\ selected_template = Some(0)
    /\ pc = "loop"

----------------------------------------------------------------------------
(* C27: the state of the wizard changes only along the edges selection ->   *)
(* form (confirm), form -> selection (cancel), form -> preview (confirm),   *)
(* preview -> form (cancel), preview -> sending (confirm), sending ->       *)
(* result (the request is back), result -> selection (confirm or cancel).   *)

Edges ==
    { <<"TemplateSelection", "FormFilling">>,
      <<"FormFilling", "TemplateSelection">>,
      <<"FormFilling", "Preview">>,
      <<"Preview", "FormFilling">>,
      <<"Preview", "Sending">>,
      <<"Sending", "Result">>,
      <<"Result", "TemplateSelection">> }

\* the step that takes an edge
EdgeStep(from, to) ==
    CASE <<from, to>> = <<"TemplateSelection", "FormFilling">> -> select_template
      [] <<from, to>> = <<"FormFilling", "TemplateSelection">> -> FormEsc
      [] <<from, to>> = <<"FormFilling", "Preview">> -> FormEnter
      [] <<from, to>> = <<"Preview", "FormFilling">> -> PreviewEsc
      [] <<from, to>> = <<"Preview", "Sending">> -> send_webhook
      [] <<from, to>> = <<"Sending", "Result">> -> send_webhook_response
      [] <<from, to>> = <<"Result", "TemplateSelection">> -> ResultAcknowledge
      [] OTHER -> FALSE

C27_OnlyTheseEdges ==
    [][state' # state =>
          /\ <<state.tag, state'.tag>> \in Edges
          /\ EdgeStep(state.tag, state'.tag)
      ]_vars

\* back in the form from the preview of a later session
C27_Witness ==
    /\ state = FormFilling
    /\ selected_template = Some(1)
    /\ template_list_state = Some(1)
    /\ current_field = 1
    /\ pc = "loop"

----------------------------------------------------------------------------
(* C28: the loop never reads a key while the state is Sending: send_webhook *)
(* sets Sending and stores a Result before it returns, so the Sending arm   *)
(* of the loop is never taken.                                              *)

C28_SendingArmUnreachable ==
    /\ [](pc = "loop" => state.tag # "Sending")
    /\ [](state.tag = "Sending" <=> pc = "send_await")
    /\ [][send_webhook_response => (state'.tag = "Result" /\ pc' = "loop")]_vars

\* the loop reads keys again on the Result of a request that got no response
C28_Witness ==
    /\ pc = "loop"
    /\ state.tag = "Result"
    /\ ~state.success
    /\ state.message.detail = "connection refused"
    /\ request = None

----------------------------------------------------------------------------
(* C29: on a template with no fields next field and prev field leave the    *)
(* cursor at 0 and no navigation or edit fails; chars and backspace leave   *)
(* the empty field_values as it is.                                         *)

NoFields == HasSession /\ FieldCount(SessionTemplate) = 0

C29_ZeroFieldsCursorStays ==
    /\ [][(NoFields /\ (next_field \/ previous_field)) =>
            (current_field' = 0 /\ pc' = "loop")]_vars
    /\ [][(NoFields /\ ((\E c \in Chars : FormChar(c)) \/ FormBackspace)) =>
            (field_values' = field_values /\ DOMAIN field_values = {} /\ pc' = "loop")]_vars

\* the part of C29 the code keeps: prev field, chars and backspace change
\* nothing on a template with no fields
C29_ZeroFieldsEditsIdle ==
    /\ [][(NoFields /\ previous_field) =>
            (current_field' = PreviousFieldIndex(current_field) /\ pc' = "loop")]_vars
    /\ [][(NoFields /\ ((\E c \in Chars : FormChar(c)) \/ FormBackspace)) =>
            (field_values' = field_values /\ DOMAIN field_values = {} /\ pc' = "loop")]_vars

----------------------------------------------------------------------------
(* C30: in the form 'q' quits and is never appended: it ends the loop with  *)
(* every value unchanged, so a value is always a prefix of its field's      *)
(* default, or of the empty string, followed by chars other than 'q'.       *)

DefaultOf(f) == IF IsSome(f.default) THEN Unwrap(f.default) ELSE EmptyString

\* v is a prefix of d followed by chars that are not 'q'
PrefixThenNoQ(v, d) ==
    \E n \in 0..Len(v) :
        /\ n <= Len(d)
        /\ SubSeq(v, 1, n) = SubSeq(d, 1, n)
        /\ \A j \in (n + 1)..Len(v) : v[j] # "q"

C30_QuitNeverTyped ==
    /\ [][FormQuit =>
            (pc' = "returned" /\ exit' = "quit" /\ field_values' = field_values)]_vars
    /\ [](Reading("FormFilling") => ENABLED FormQuit)
    /\ [](HasSession =>
            \A f \in Range(SessionTemplate.fields) :
                PrefixThenNoQ(field_values[f.key], DefaultOf(f)))

\* 'q' pressed in the form after typing: the loop has ended, the value is as typed
C30_Witness ==
    /\ exit = "quit"
    /\ state = FormFilling
    /\ HasSession
    /\ SessionTemplate.id = "B"
    /\ field_values["note"] = <<"x", "j">>

====
